---- MODULE Spec2Model ----
(***************************************************************************)
(* Model of Nanodbc's Result::ResultImpl (src/src/Nanodbc.cpp): the block  *)
(* cursor over a result set (first/last/next/prior/move/skip, atEnd) and   *)
(* the per-column accessors (isNull, get/getRef, column metadata).         *)
(*                                                                         *)
(* The ODBC driver is the environment.  It is modelled by the block-cursor *)
(* rules of SQLFetchScroll (rowset start, rows-fetched counter, length /   *)
(* null indicators written into the bound arrays), by SQLGetStmtAttr       *)
(* (SQL_ATTR_ROW_NUMBER) and by SQLGetData on the rowset's current row.    *)
(* Native calls are assumed to succeed or to report SQL_NO_DATA, except in *)
(* the model of next(eventHandle), asyncNext and completeNext, where a     *)
(* fetch may also fail or be left executing.                               *)
(***************************************************************************)
EXTENDS Integers, Sequences, FiniteSets, TLC

\* ------------------------------------------------------------------ bounds
MaxBatch == 3          \* largest rowset size tried
MaxRows == 4           \* largest result set tried
MaxSkip == 2           \* skip(n) is tried for n in -MaxSkip..MaxSkip
MaxBack == 2           \* rowset_position_ is followed down to -MaxBack
MaxFetchCount == 6     \* native fetches counted in one forward run
MaxDataRows == 3       \* largest result set whose cells are read
MaxDataBatch == 2      \* largest rowset size under which cells are read
MaxContent == 9        \* longest content of a variable-length cell
MaxResults == 3        \* most result sets of one statement
MaxTransactions == 2   \* Transaction objects on the one connection
MaxElements == 3       \* longest array of values bound to a parameter

\* ------------------------------------------------------- program constants
SQL_NULL_DATA == -1
\* SQLULEN is unsigned; its width is reduced to 16 bits here (every row
\* number of the model is far below it), arithmetic on it is modulo this.
ULenModulus == 65536
\* the content of an indicator slot that was allocated and never written
Indeterminate == 77
SQL_NO_TOTAL == -4
\* sizeof(buffer) of the chunk loops, in bytes; 1024 in the source, reduced
\* here (the loops depend on it only through the comparisons modelled)
buffer_size == 4
\* sizeof(wide_char_t) for the u16string build
sizeof_wide_char_t == 2

Min(a, b) == IF a < b THEN a ELSE b

VARIABLES
    \* ---- the driver's side
    result_rows,            \* N: rows of the result set
    rowset_start,           \* 1-based first row of the rowset; 0 before start, N+1 after end
    row_number_mode,        \* what SQL_ATTR_ROW_NUMBER reports: "exact", "zero", "unknown"
    writes_blob_indicator,  \* whether a fetch fills the indicator of an unbound-data column
    null_row, null_col,     \* the one NULL cell of the data (null_row = 0: none)
    got_data,               \* columns whose data SQLGetData has already returned for this rowset
    result_columns,         \* the columns of the current result set
    more_results,           \* the shapes of the result sets still to come
    result_index,           \* which result set of the statement is current (1, 2, ...)
    \* ---- Result::ResultImpl
    rowset_size_,
    row_count_,
    rowset_position_,
    at_end_,
    bound_columns_,         \* ordinal -> [name_, blob_]
    bound_columns_by_name_, \* name -> ordinal
    cbdata_,                \* ordinal -> slot -> indicator
    async_,
    \* ---- the driver's asynchronous fetch
    pending,                \* the return code the fetch in progress will have, or "none"
    async_call,             \* the last next, asyncNext or completeNext call
    \* ---- observation
    nav,                    \* the last navigation call
    acc,                    \* the last accessor call
    observe,                \* what is recorded: "run", "access" or "isNull"
    first_null, got_since,  \* the first isNull answer on the unmoved row
    fwd, hist, nfetch,      \* the forward run since construction or first()
    \* ---- one chunked read of a variable-length cell (get_ref_impl)
    content,                \* the stored content of the cell
    ctype_,                 \* the C type the cell is read as
    reports_total,          \* whether the driver reports the length still to come
    returned,               \* elements the driver has handed out so far
    target,                 \* what it is read into: "string" or "bytes"
    buffer,                 \* the scratch buffer of the loop
    out,                    \* what the loop has assembled
    rc,                     \* the return code of the last SQLGetData
    calls,                  \* SQLGetData calls made by the loop
    \* ---- one typed read of a bound cell (get_ref_impl)
    pdata_,                 \* the cell's value in the row buffer
    Result,                 \* what the read produced
    \* ---- Connection::ConnectionImpl and the Transaction objects on it
    connected_,
    transactions_,
    rollback_,
    autocommit,             \* the driver's SQL_ATTR_AUTOCOMMIT of the connection
    committed_,             \* per Transaction: "unborn", "false", "true"
    alive,                  \* per Transaction: its TransactionImpl exists
    work,                   \* per Transaction: its modifying operation in the database
    marked,                 \* rollback() was called and no native ROLLBACK came since
    txn_call,               \* the last call on a Transaction
    \* ---- Statement::StatementImpl: one parameter of a prepared statement
    values,                 \* the caller's array of values
    parameterSize,          \* the size SQLDescribeParam reports for the parameter
    bind_len_or_null_,      \* the length/null indicators of the parameter
    bind_call               \* the last bind call: its overload, sentry and flags

resultVars == <<result_rows, rowset_start, row_number_mode, writes_blob_indicator,
                null_row, null_col, got_data, result_columns, more_results, result_index,
                rowset_size_, row_count_, rowset_position_, at_end_,
                bound_columns_, bound_columns_by_name_, cbdata_,
                async_, pending, async_call,
                nav, acc, observe, first_null, got_since, fwd, hist, nfetch>>
chunkVars == <<content, reports_total, returned, buffer, out, rc, calls>>
cellVars == <<ctype_, target, pdata_, Result>>
\* the state outside the Result object
txnVars == <<connected_, transactions_, rollback_, autocommit, committed_, alive,
             work, marked, txn_call>>
stmtVars == <<values, parameterSize, bind_len_or_null_, bind_call>>
outsideResult == <<chunkVars, cellVars, txnVars, stmtVars>>

vars == <<resultVars, outsideResult>>

driverVars == <<result_rows, row_number_mode, writes_blob_indicator, null_row, null_col,
                result_columns, more_results, result_index>>
bindVars == <<rowset_size_, bound_columns_, bound_columns_by_name_>>
asyncVars == <<async_, pending, async_call>>

\* ------------------------------------------------------------ result shape
\* The columns SQLDescribeCol reports: (id: 64-bit integer, bio: unbounded text).
SQL_BIGINT == "SQL_BIGINT"
SQL_VARCHAR == "SQL_VARCHAR"
Shape ==
    <<[name |-> "id",  sqltype |-> SQL_BIGINT,  sqlsize |-> 19],
      [name |-> "bio", sqltype |-> SQL_VARCHAR, sqlsize |-> 0]>>

Names == {"id", "bio", "nope"}

\* auto_bind: the C type a column of this SQL type is bound as
sql_ctype(sqltype) ==
    CASE sqltype \in {"SQL_BIT", "SQL_TINYINT", "SQL_SMALLINT", "SQL_INTEGER", SQL_BIGINT}
            -> "SQL_C_SBIGINT"
      [] sqltype \in {"SQL_DOUBLE", "SQL_FLOAT", "SQL_DECIMAL", "SQL_REAL", "SQL_NUMERIC"}
            -> "SQL_C_DOUBLE"
      [] sqltype \in {"SQL_DATE", "SQL_TYPE_DATE"} -> "SQL_C_DATE"
      [] sqltype \in {"SQL_TIME", "SQL_TYPE_TIME"} -> "SQL_C_TIME"
      [] sqltype \in {"SQL_TIMESTAMP", "SQL_TYPE_TIMESTAMP"} -> "SQL_C_TIMESTAMP"
      [] sqltype \in {"SQL_CHAR", SQL_VARCHAR, "SQL_LONGVARCHAR"} -> "SQL_C_CHAR"
      [] sqltype \in {"SQL_WCHAR", "SQL_WVARCHAR"} -> "SQL_C_WCHAR"
      [] sqltype \in {"SQL_BINARY", "SQL_VARBINARY", "SQL_LONGVARBINARY", "SQL_SS_UDT"}
            -> "SQL_C_BINARY"
      [] OTHER -> "SQL_C_CHAR"

\* auto_bind: "unlimited" data (varchar(max), nvarchar(max))
is_blob(sqltype, sqlsize) == sqlsize = 0 /\ sqltype \in {SQL_VARCHAR, "SQL_WVARCHAR"}

\* auto_bind, the switch on col.sqltype_: blob_
blob_of(sqltype, sqlsize) ==
    CASE sqltype \in {"SQL_CHAR", SQL_VARCHAR, "SQL_WCHAR", "SQL_WVARCHAR"}
            -> is_blob(sqltype, sqlsize)
      [] sqltype \in {"SQL_LONGVARCHAR", "SQL_BINARY", "SQL_VARBINARY",
                      "SQL_LONGVARBINARY", "SQL_SS_UDT"} -> TRUE
      [] OTHER -> FALSE

\* the switch with col.clen_ of an unlimited character column left at its
\* declared size
clen_of_keeps_declared_size(sqltype, sqlsize) ==
    CASE sqltype \in {"SQL_BIT", "SQL_TINYINT", "SQL_SMALLINT", "SQL_INTEGER", SQL_BIGINT}
            -> 8
      [] sqltype \in {"SQL_DOUBLE", "SQL_FLOAT", "SQL_DECIMAL", "SQL_REAL", "SQL_NUMERIC"}
            -> 8
      [] sqltype \in {"SQL_DATE", "SQL_TYPE_DATE"} -> 6
      [] sqltype \in {"SQL_TIME", "SQL_TYPE_TIME"} -> 6
      [] sqltype \in {"SQL_TIMESTAMP", "SQL_TYPE_TIMESTAMP"} -> 16
      [] sqltype \in {"SQL_CHAR", SQL_VARCHAR} -> sqlsize + 1
      [] sqltype \in {"SQL_WCHAR", "SQL_WVARCHAR"} -> (sqlsize + 1) * sizeof_wide_char_t
      [] sqltype \in {"SQL_LONGVARCHAR", "SQL_BINARY", "SQL_VARBINARY",
                      "SQL_LONGVARBINARY", "SQL_SS_UDT"} -> 0
      [] OTHER -> 128

\* auto_bind, the switch on col.sqltype_: clen_, the bytes of one row's
\* cell (sizeof(int64_t), sizeof(double), sizeof(date), sizeof(time),
\* sizeof(timestamp), the declared size and a terminator, or 128)
clen_of(sqltype, sqlsize) ==
    CASE sqltype \in {"SQL_BIT", "SQL_TINYINT", "SQL_SMALLINT", "SQL_INTEGER", SQL_BIGINT}
            -> 8
      [] sqltype \in {"SQL_DOUBLE", "SQL_FLOAT", "SQL_DECIMAL", "SQL_REAL", "SQL_NUMERIC"}
            -> 8
      [] sqltype \in {"SQL_DATE", "SQL_TYPE_DATE"} -> 6
      [] sqltype \in {"SQL_TIME", "SQL_TYPE_TIME"} -> 6
      [] sqltype \in {"SQL_TIMESTAMP", "SQL_TYPE_TIMESTAMP"} -> 16
      [] sqltype \in {"SQL_CHAR", SQL_VARCHAR} ->
            IF is_blob(sqltype, sqlsize) THEN 0 ELSE sqlsize + 1
      [] sqltype \in {"SQL_WCHAR", "SQL_WVARCHAR"} ->
            IF is_blob(sqltype, sqlsize) THEN 0 ELSE (sqlsize + 1) * sizeof_wide_char_t
      [] sqltype \in {"SQL_LONGVARCHAR", "SQL_BINARY", "SQL_VARBINARY",
                      "SQL_LONGVARBINARY", "SQL_SS_UDT"} -> 0
      [] OTHER -> 128

\* auto_bind, first loop: the descriptor of column i (0-based) of the
\* shape; bound_column() leaves it without a data buffer and unbound
describe_column(shape, i) ==
    LET d == shape[i + 1]
    IN  [name_ |-> d.name, column_ |-> i, sqltype_ |-> d.sqltype,
         ctype_ |-> sql_ctype(d.sqltype),
         clen_ |-> clen_of(d.sqltype, d.sqlsize),
         blob_ |-> blob_of(d.sqltype, d.sqlsize),
         pdata_ |-> [allocated |-> FALSE, bytes |-> 0],
         SQLBindCol |-> [TargetValuePtr |-> "unbound", BufferLength |-> 0]]

\* auto_bind, second loop: a blob column is bound with its indicator array
\* only, any other column gets pdata_ = new char[rowset_size_ * col.clen_]
\* and is bound with it
bind_column(col) ==
    IF col.blob_
    THEN [col EXCEPT !.SQLBindCol = [TargetValuePtr |-> "null", BufferLength |-> 0]]
    ELSE [col EXCEPT !.pdata_ = [allocated |-> TRUE, bytes |-> rowset_size_ * col.clen_],
                     !.SQLBindCol = [TargetValuePtr |-> "pdata_",
                                     BufferLength |-> col.clen_]]

\* auto_bind: bound_columns_by_name_[col.name_] = &col, for i = 0, 1, ...
RECURSIVE register_names(_, _)
register_names(shape, n) ==
    IF n = 0 THEN [nm \in {} |-> 0]
    ELSE LET before == register_names(shape, n - 1)
             nm0 == shape[n].name
         IN  [nm \in DOMAIN before \cup {nm0} |->
                 IF nm = nm0 THEN n - 1 ELSE before[nm]]

bound_columns_size_ == Len(bound_columns_)

\* --------------------------------------------------------------- the driver
ValidStart(s) == s >= 1 /\ s <= result_rows
BeforeStart == 0
AfterEnd == result_rows + 1
Normalize(s) == IF s < 1 THEN BeforeStart ELSE IF s > result_rows THEN AfterEnd ELSE s

\* SQLFetchScroll(SQL_FETCH_ABSOLUTE, off): the new rowset start
FetchAbsolute(off) ==
    IF off < 0
    THEN IF -off <= result_rows THEN result_rows + off + 1
         ELSE IF -off > rowset_size_ THEN BeforeStart ELSE Normalize(1)
    ELSE Normalize(off)

\* SQLFetchScroll(orientation, off): the new rowset start, by the block
\* cursor rules of ODBC for a scrollable cursor
SQLFetchScroll(orientation, off) ==
    LET s == rowset_start
        B == rowset_size_
        N == result_rows
    IN  CASE orientation = "SQL_FETCH_FIRST" -> Normalize(1)
          [] orientation = "SQL_FETCH_LAST" ->
                IF B <= N THEN N - B + 1 ELSE Normalize(1)
          [] orientation = "SQL_FETCH_NEXT" ->
                IF s = BeforeStart THEN Normalize(1)
                ELSE IF ValidStart(s) THEN Normalize(s + B)
                ELSE AfterEnd
          [] orientation = "SQL_FETCH_PRIOR" ->
                IF s = BeforeStart \/ s = 1 THEN BeforeStart
                ELSE IF ValidStart(s) THEN (IF s <= B THEN 1 ELSE s - B)
                ELSE IF N < B THEN Normalize(1) ELSE N - B + 1
          [] orientation = "SQL_FETCH_ABSOLUTE" -> FetchAbsolute(off)
          [] orientation = "SQL_FETCH_RELATIVE" ->
                IF s = BeforeStart THEN (IF off > 0 THEN FetchAbsolute(off) ELSE BeforeStart)
                ELSE IF ~ValidStart(s) THEN (IF off < 0 THEN FetchAbsolute(off) ELSE AfterEnd)
                ELSE IF s = 1 /\ off < 0 THEN BeforeStart
                ELSE IF s + off < 1 THEN (IF -off > B THEN BeforeStart ELSE 1)
                ELSE Normalize(s + off)

\* the rows a fetch that positions the rowset at s delivers (0 with SQL_NO_DATA)
RowsFetched(s) ==
    IF ValidStart(s) THEN Min(rowset_size_, result_rows - s + 1) ELSE 0

CellIsNull(row, column) == row = null_row /\ column = null_col

\* the indicator the driver writes for (row, column) at fetch: a column bound
\* without a data buffer is left alone by a driver that does not fill it
IndicatorWritten(row, column, cleared) ==
    IF bound_columns_[column + 1].blob_ /\ ~writes_blob_indicator THEN cleared
    ELSE IF CellIsNull(row, column) THEN SQL_NULL_DATA
    ELSE 8

\* SQLGetStmtAttr(SQL_ATTR_ROW_NUMBER): the value stored in the SQLULEN pos
RowNumber ==
    CASE row_number_mode = "exact" -> IF ValidStart(rowset_start) THEN rowset_start ELSE 0
      [] row_number_mode = "zero" -> 0
      [] row_number_mode = "unknown" -> (0 - 2) % ULenModulus

\* ------------------------------------------------------- Result::ResultImpl
rows == row_count_

Ordinals == 0 .. (bound_columns_size_ - 1)
Slots == 0 .. (rowset_size_ - 1)

\* the cursor is on a fetched row, and which one (0-based)
OnRow ==
    /\ ValidStart(rowset_start)
    /\ rowset_position_ >= 0
    /\ rowset_position_ < row_count_
CurrentRow == rowset_start - 1 + rowset_position_
RowOrNone == IF OnRow THEN CurrentRow ELSE -1

before_move(cb) == [c \in Ordinals |-> [j \in Slots |-> 0]]

\* fetch(rows, orientation): before_move, the native fetch, at_end_ on
\* SQL_NO_DATA; ret is the value it returns
fetch(n, orientation, ret) ==
    LET s == SQLFetchScroll(orientation, n)
        cleared == before_move(cbdata_)
    IN  /\ rowset_start' = s
        /\ row_count_' = RowsFetched(s)
        /\ cbdata_' = [c \in Ordinals |-> [j \in Slots |->
                          IF j < RowsFetched(s)
                          THEN IndicatorWritten(s + j, c, cleared[c][j])
                          ELSE cleared[c][j]]]
        /\ got_data' = {}
        /\ at_end_' = IF ValidStart(s) THEN at_end_ ELSE TRUE
        /\ ret = ValidStart(s)

NoCall == [op |-> "none", arg |-> 0, ret |-> "none", from |-> -1, fetch |-> "none"]
NoAccess == [op |-> "none", column |-> 0, name |-> "", ret |-> "none",
             indicator_set |-> FALSE, buffer_read |-> FALSE,
             native_call |-> FALSE, descriptor_read |-> FALSE]
NoAnswer == [column |-> -1, ret |-> "none"]

\* a navigation call ends what was observed on the row it leaves
Moved ==
    /\ acc' = NoAccess
    /\ first_null' = NoAnswer
    /\ got_since' = FALSE
    /\ UNCHANGED <<observe, asyncVars, outsideResult>>

NoFetch == UNCHANGED <<rowset_start, row_count_, cbdata_, got_data, at_end_>>

BoolStr(b) == IF b THEN "true" ELSE "false"

\* the record of a navigation call: the row it started from, what it returned
NavRecord(op, arg, ret) ==
    IF observe = "run"
    THEN [op |-> op, arg |-> arg, ret |-> BoolStr(ret), from |-> RowOrNone,
          fetch |-> "none"]
    ELSE NoCall

\* the same for a call that issued a native fetch of this orientation
FetchRecord(op, arg, ret, orientation) ==
    IF observe = "run"
    THEN [NavRecord(op, arg, ret) EXCEPT !.fetch = orientation]
    ELSE NoCall

\* the forward run: rows made current and native fetches issued by next()
\* calls since construction or first(); any other navigation call ends it
EndRun == fwd' = FALSE /\ hist' = << >> /\ nfetch' = 0
TrackNext(ret, fetched) ==
    IF ~fwd \/ observe # "run" \/ (fetched /\ nfetch >= MaxFetchCount) THEN EndRun
    ELSE /\ fwd' = TRUE
         /\ hist' = IF ret THEN Append(hist, CurrentRow') ELSE hist
         /\ nfetch' = IF fetched THEN nfetch + 1 ELSE nfetch

first ==
    /\ rowset_position_' = 0
    /\ \E ret \in BOOLEAN :
          /\ fetch(0, "SQL_FETCH_FIRST", ret)
          /\ nav' = FetchRecord("first", 0, ret, "SQL_FETCH_FIRST")
          /\ IF observe # "run" THEN EndRun
             ELSE /\ fwd' = TRUE
                  /\ hist' = IF ret THEN <<CurrentRow'>> ELSE << >>
                  /\ nfetch' = 1
    /\ Moved
    /\ UNCHANGED <<driverVars, bindVars>>

last ==
    /\ rowset_position_' = 0
    /\ \E ret \in BOOLEAN :
          /\ fetch(0, "SQL_FETCH_LAST", ret)
          /\ nav' = FetchRecord("last", 0, ret, "SQL_FETCH_LAST")
    /\ EndRun
    /\ Moved
    /\ UNCHANGED <<driverVars, bindVars>>

\* next() with the in-batch test off by one: rowset_position_ <= rows()
next_off_by_one ==
    /\ IF rows # 0 /\ rowset_position_ + 1 < rowset_size_
       THEN /\ rowset_position_' = rowset_position_ + 1
            /\ NoFetch
            /\ nav' = NavRecord("next", 0, rowset_position_' <= rows)
            /\ TrackNext(rowset_position_' <= rows, FALSE)
       ELSE /\ rowset_position_' = 0
            /\ \E ret \in BOOLEAN :
                  /\ fetch(0, "SQL_FETCH_NEXT", ret)
                  /\ nav' = FetchRecord("next", 0, ret, "SQL_FETCH_NEXT")
                  /\ TrackNext(ret, TRUE)
    /\ Moved
    /\ UNCHANGED <<driverVars, bindVars>>

\* next() that never serves a row from the batch in memory
next_always_fetches ==
    /\ rowset_position_' = 0
    /\ \E ret \in BOOLEAN :
          /\ fetch(0, "SQL_FETCH_NEXT", ret)
          /\ nav' = FetchRecord("next", 0, ret, "SQL_FETCH_NEXT")
          /\ TrackNext(ret, TRUE)
    /\ Moved
    /\ UNCHANGED <<driverVars, bindVars>>

next ==
    /\ IF rows # 0 /\ rowset_position_ + 1 < rowset_size_
       THEN /\ rowset_position_' = rowset_position_ + 1
            /\ NoFetch
            /\ nav' = NavRecord("next", 0, rowset_position_' < rows)
            /\ TrackNext(rowset_position_' < rows, FALSE)
       ELSE /\ rowset_position_' = 0
            /\ \E ret \in BOOLEAN :
                  /\ fetch(0, "SQL_FETCH_NEXT", ret)
                  /\ nav' = FetchRecord("next", 0, ret, "SQL_FETCH_NEXT")
                  /\ TrackNext(ret, TRUE)
    /\ Moved
    /\ UNCHANGED <<driverVars, bindVars>>

\* prior() that never serves a row from the batch in memory
prior_always_fetches ==
    /\ rowset_position_' = 0
    /\ \E ret \in BOOLEAN :
          /\ fetch(0, "SQL_FETCH_PRIOR", ret)
          /\ nav' = FetchRecord("prior", 0, ret, "SQL_FETCH_PRIOR")
    /\ EndRun
    /\ Moved
    /\ UNCHANGED <<driverVars, bindVars>>

prior ==
    /\ IF rows # 0 /\ rowset_position_ - 1 >= 0
       THEN /\ rowset_position_' = rowset_position_ - 1
            /\ NoFetch
            /\ nav' = NavRecord("prior", 0, TRUE)
       ELSE /\ rowset_position_' = 0
            /\ \E ret \in BOOLEAN :
                  /\ fetch(0, "SQL_FETCH_PRIOR", ret)
                  /\ nav' = FetchRecord("prior", 0, ret, "SQL_FETCH_PRIOR")
    /\ EndRun
    /\ Moved
    /\ UNCHANGED <<driverVars, bindVars>>

move(row) ==
    /\ rowset_position_' = 0
    /\ \E ret \in BOOLEAN :
          /\ fetch(row, "SQL_FETCH_ABSOLUTE", ret)
          /\ nav' = FetchRecord("move", row, ret, "SQL_FETCH_ABSOLUTE")
    /\ EndRun
    /\ Moved
    /\ UNCHANGED <<driverVars, bindVars>>

skip(n) ==
    /\ rowset_position_ + n >= -MaxBack
    /\ IF rows # 0 /\ rowset_position_ + n < rowset_size_
       THEN /\ rowset_position_' = rowset_position_ + n
            /\ NoFetch
            /\ nav' = NavRecord("skip", n, rowset_position_' < rows)
       ELSE /\ rowset_position_' = 0
            /\ \E ret \in BOOLEAN :
                  /\ fetch(n, "SQL_FETCH_RELATIVE", ret)
                  /\ nav' = FetchRecord("skip", n, ret, "SQL_FETCH_RELATIVE")
    /\ EndRun
    /\ Moved
    /\ UNCHANGED <<driverVars, bindVars>>

\* ------------------------------------------------- asyncNext, completeNext
NoAsyncCall == [op |-> "none", ret |-> "none", rc |-> "none",
                in_progress |-> FALSE, arc |-> "none"]

\* the driver: what a fetch to rowset start s that ends with this return
\* code leaves in the rowset and the bound indicator arrays (nothing when
\* it failed or is still executing)
FetchEffect(s, code, cleared) ==
    IF code \in {"SQL_SUCCESS", "SQL_NO_DATA"}
    THEN /\ rowset_start' = s
         /\ row_count_' = RowsFetched(s)
         /\ cbdata_' = [c \in Ordinals |-> [j \in Slots |->
                           IF j < RowsFetched(s)
                           THEN IndicatorWritten(s + j, c, cleared[c][j])
                           ELSE cleared[c][j]]]
    ELSE /\ cbdata_' = cleared
         /\ UNCHANGED <<rowset_start, row_count_>>

\* the return codes SQLFetchScroll can give: success or no data as the
\* rowset start s tells, a failure, and with asynchronous execution enabled
\* SQL_STILL_EXECUTING
ReturnCodes(s, eventHandle) ==
    {IF ValidStart(s) THEN "SQL_SUCCESS" ELSE "SQL_NO_DATA", "SQL_ERROR"}
        \cup (IF eventHandle = "nullptr" THEN {} ELSE {"SQL_STILL_EXECUTING"})

\* fetch(rows, orientation, eventHandle) when SQLFetchScroll returns code:
\* ret is what it returns, or DatabaseError
fetch_event(n, orientation, eventHandle, code, ret) ==
    LET s == SQLFetchScroll(orientation, n)
    IN  /\ code \in ReturnCodes(s, eventHandle)
        /\ FetchEffect(s, code, before_move(cbdata_))
        /\ got_data' = {}
        /\ IF code = "SQL_STILL_EXECUTING"
           THEN pending' \in ReturnCodes(s, "nullptr")
           ELSE pending' = "none"
        /\ at_end_' = IF code = "SQL_NO_DATA" THEN TRUE ELSE at_end_
        /\ ret = CASE code = "SQL_NO_DATA" -> "false"
                   [] code # "SQL_NO_DATA" /\ eventHandle # "nullptr" ->
                         BoolStr(code = "SQL_STILL_EXECUTING")
                   [] code = "SQL_ERROR" /\ eventHandle = "nullptr" -> "DatabaseError"
                   [] OTHER -> "true"

\* next(eventHandle), called as next() (op "next", eventHandle nullptr) or
\* by asyncNext(eventHandle), which stores what it returns in async_
next_event(op, eventHandle) ==
    /\ pending = "none"
    /\ \E code \in {"none", "SQL_SUCCESS", "SQL_NO_DATA", "SQL_ERROR", "SQL_STILL_EXECUTING"},
          ret \in {"true", "false", "DatabaseError"} :
          /\ IF rows # 0 /\ rowset_position_ + 1 < rowset_size_
             THEN /\ code = "none"
                  /\ rowset_position_' = rowset_position_ + 1
                  /\ NoFetch
                  /\ UNCHANGED pending
                  /\ ret = BoolStr(rowset_position_' < rows)
             ELSE /\ rowset_position_' = 0
                  /\ fetch_event(0, "SQL_FETCH_NEXT", eventHandle, code, ret)
          /\ async_' = IF op = "asyncNext" THEN ret = "true" ELSE async_
          /\ async_call' = [NoAsyncCall EXCEPT !.op = op, !.ret = ret, !.rc = code]
    /\ nav' = NoCall /\ acc' = NoAccess /\ first_null' = NoAnswer /\ got_since' = FALSE
    /\ EndRun
    /\ UNCHANGED <<driverVars, bindVars, observe, outsideResult>>

asyncNext == next_event("asyncNext", "eventHandle")

\* completeNext(): with async_ set, SQLCompleteAsync.  It returns
\* SQL_SUCCESS and stores the fetch's return code in arc when a fetch is in
\* progress; with none in progress it returns SQL_NO_DATA and leaves arc as
\* it was, uninitialised.
completeNext ==
    /\ IF async_
       THEN \E arc \in {"SQL_SUCCESS", "SQL_NO_DATA", "SQL_ERROR"} :
               LET in_progress == pending # "none"
                   rc_ == IF in_progress THEN "SQL_SUCCESS" ELSE "SQL_NO_DATA"
                   ret == IF arc = "SQL_NO_DATA" THEN "false"
                          ELSE IF rc_ # "SQL_SUCCESS" \/ arc # "SQL_SUCCESS"
                          THEN "DatabaseError"
                          ELSE BoolStr(~at_end_)
               IN  /\ in_progress => arc = pending
                   /\ IF in_progress
                      THEN FetchEffect(SQLFetchScroll("SQL_FETCH_NEXT", 0), arc, cbdata_)
                      ELSE UNCHANGED <<rowset_start, row_count_, cbdata_>>
                   /\ pending' = "none"
                   /\ at_end_' = IF arc = "SQL_NO_DATA" THEN TRUE ELSE at_end_
                   /\ async_' = IF ret \in {"true", "false"} /\ arc # "SQL_NO_DATA"
                                THEN FALSE ELSE async_
                   /\ async_call' = [op |-> "completeNext", ret |-> ret,
                                     rc |-> IF async_call.op = "asyncNext"
                                            THEN async_call.rc ELSE "none",
                                     in_progress |-> in_progress, arc |-> arc]
       ELSE /\ async_call' = [NoAsyncCall EXCEPT
                                 !.op = "completeNext", !.ret = BoolStr(~at_end_),
                                 !.rc = IF async_call.op = "asyncNext"
                                        THEN async_call.rc ELSE "none"]
            /\ UNCHANGED <<rowset_start, row_count_, cbdata_, pending, at_end_, async_>>
    /\ UNCHANGED <<driverVars, bindVars, rowset_position_, got_data, nav, acc, observe,
                   first_null, got_since, fwd, hist, nfetch, outsideResult>>

\* atEnd(): at_end_, or the row-number heuristic in unsigned arithmetic
atEnd ==
    IF at_end_ THEN TRUE
    ELSE rows < 0 \/ (RowNumber - 1) % ULenModulus > rows

\* ---------------------------------------------------------------- accessors
\* the null indicator of the current row's cell of this column is set
IndicatorSet(column) ==
    /\ OnRow
    /\ column \in Ordinals
    /\ cbdata_[column][rowset_position_] = SQL_NULL_DATA

Access(op, column, name, ret, buffer_read, native_call, descriptor_read) ==
    [op |-> op, column |-> column, name |-> name, ret |-> ret,
     indicator_set |-> IndicatorSet(column), buffer_read |-> buffer_read,
     native_call |-> native_call, descriptor_read |-> descriptor_read]

\* reading bound_columns_[column] for column < 0, or an array at a negative
\* rowset_position_, is a read outside the array: any value, or a crash
OutsideArray(column) == column < 0 \/ rowset_position_ < 0

\* the values a read of an indicator slot can give: a slot that was
\* allocated and never written holds anything
SlotValues(column, j) ==
    IF cbdata_[column][j] = Indeterminate THEN {SQL_NULL_DATA, 0}
    ELSE {cbdata_[column][j]}

\* isNull without the test of the position against rows()
isNull_no_position_check(column) ==
    IF column >= bound_columns_size_
    THEN {[ret |-> "IndexRangeError", descriptor_read |-> FALSE]}
    ELSE IF OutsideArray(column) \/ rowset_position_ >= rowset_size_
    THEN {[ret |-> r, descriptor_read |-> TRUE] : r \in {"true", "false", "crash"}}
    ELSE {[ret |-> BoolStr(v = SQL_NULL_DATA), descriptor_read |-> TRUE] :
             v \in SlotValues(column, rowset_position_)}

\* isNull(short column): the outcomes of the call
isNull(column) ==
    IF column >= bound_columns_size_ \/ rowset_position_ >= rows
    THEN {[ret |-> "IndexRangeError", descriptor_read |-> FALSE]}
    ELSE IF OutsideArray(column)
    THEN {[ret |-> r, descriptor_read |-> TRUE] : r \in {"true", "false", "crash"}}
    ELSE {[ret |-> BoolStr(v = SQL_NULL_DATA), descriptor_read |-> TRUE] :
             v \in SlotValues(column, rowset_position_)}

\* column(columnName): the ordinal registered for the name; none: IndexRangeError
column(columnName) ==
    IF columnName \in DOMAIN bound_columns_by_name_
    THEN {bound_columns_by_name_[columnName]}
    ELSE {}

\* columnName, columnSize, columnDecimalDigits, columnDatatype,
\* columnCDatatype (short column): the outcomes of the call
column_attribute(col) ==
    IF col >= bound_columns_size_
    THEN {[ret |-> "IndexRangeError", descriptor_read |-> FALSE]}
    ELSE IF col < 0
    THEN {[ret |-> r, descriptor_read |-> TRUE] : r \in {"garbage", "crash"}}
    ELSE {[ret |-> "value", descriptor_read |-> TRUE]}

\* SQLGetData on an unbound column: the values ValueLenOrInd can hold when
\* the chunk loop ends.  The call reads the rowset's current row, which is
\* its first row (SQLSetPos is never called).  Once the data was returned a
\* further call answers SQL_NO_DATA and leaves ValueLenOrInd as it was,
\* never initialised.
SQLGetData(col) ==
    IF col \in got_data THEN {SQL_NULL_DATA, 0, 1}
    ELSE IF CellIsNull(rowset_start, col) THEN {SQL_NULL_DATA}
    ELSE {1}

\* get_ref_impl that takes the SQLGetData path for every column
get_ref_impl_always_chunked(col, op, name) ==
    \E ValueLenOrInd \in SQLGetData(col) :
        /\ cbdata_' = IF ValueLenOrInd = SQL_NULL_DATA
                      THEN [cbdata_ EXCEPT ![col][rowset_position_] = SQL_NULL_DATA]
                      ELSE cbdata_
        /\ got_data' = got_data \cup {col}
        /\ acc' = Access(op, col, name, "value", FALSE, TRUE, TRUE)

\* get_ref_impl<StringType>: a bound column is read from its row buffer, a
\* blob_ column through the SQLGetData loop, which sets the row's indicator
\* when it reports SQL_NULL_DATA
get_ref_impl(col, op, name) ==
    IF ~bound_columns_[col + 1].blob_
    THEN /\ acc' = Access(op, col, name, "value", TRUE, FALSE, TRUE)
         /\ UNCHANGED <<cbdata_, got_data>>
    ELSE \E ValueLenOrInd \in SQLGetData(col) :
            /\ cbdata_' = IF ValueLenOrInd = SQL_NULL_DATA
                          THEN [cbdata_ EXCEPT ![col][rowset_position_] = SQL_NULL_DATA]
                          ELSE cbdata_
            /\ got_data' = got_data \cup {col}
            /\ acc' = Access(op, col, name, "value", FALSE, TRUE, TRUE)

\* getRef with a fallback that goes on to the typed read of a null cell
\* (the return after Result = fallback missing)
null_checked_get_falls_through(col, has_fallback, op, name) ==
    \E o \in isNull(col) :
        IF o.ret = "false" \/ (o.ret = "true" /\ has_fallback)
        THEN IF OutsideArray(col)
             THEN /\ \E r \in {"garbage", "crash"} :
                        acc' = Access(op, col, name, r, TRUE, FALSE, TRUE)
                  /\ UNCHANGED <<cbdata_, got_data>>
             ELSE get_ref_impl(col, op, name)
        ELSE /\ acc' = Access(op, col, name,
                          IF o.ret = "true" THEN "NullAccessError" ELSE o.ret,
                          FALSE, FALSE, o.descriptor_read)
             /\ UNCHANGED <<cbdata_, got_data>>

\* getRef after the column is known: the null check, then the typed read
null_checked_get(col, has_fallback, op, name) ==
    \E o \in isNull(col) :
        IF o.ret = "false"
        THEN IF OutsideArray(col)
             THEN /\ \E r \in {"garbage", "crash"} :
                        acc' = Access(op, col, name, r, TRUE, FALSE, TRUE)
                  /\ UNCHANGED <<cbdata_, got_data>>
             ELSE get_ref_impl(col, op, name)
        ELSE /\ acc' = Access(op, col, name,
                          IF o.ret = "true"
                          THEN (IF has_fallback THEN "fallback" ELSE "NullAccessError")
                          ELSE o.ret,
                          FALSE, FALSE, o.descriptor_read)
             /\ UNCHANGED <<cbdata_, got_data>>

GetOp(has_fallback) == IF has_fallback THEN "getFallback" ELSE "get"

\* getRef(short column, [fallback,] Result)
getRef(col, has_fallback) ==
    IF col >= bound_columns_size_
    THEN /\ acc' = Access(GetOp(has_fallback), col, "", "IndexRangeError",
                          FALSE, FALSE, FALSE)
         /\ UNCHANGED <<cbdata_, got_data>>
    ELSE null_checked_get(col, has_fallback, GetOp(has_fallback), "")

\* getRef(const StringType& columnName, [fallback,] Result)
getRef_by_name(columnName, has_fallback) ==
    IF column(columnName) = {}
    THEN /\ acc' = Access(GetOp(has_fallback), -1, columnName, "IndexRangeError",
                          FALSE, FALSE, FALSE)
         /\ UNCHANGED <<cbdata_, got_data>>
    ELSE \E col \in column(columnName) :
            null_checked_get(col, has_fallback, GetOp(has_fallback), columnName)

\* an accessor leaves the cursor where it is
AccessorFrame ==
    /\ nav' = NoCall
    /\ UNCHANGED <<driverVars, bindVars, rowset_start, row_count_,
                   rowset_position_, at_end_, observe, fwd, hist, nfetch,
                   asyncVars, outsideResult>>

\* the first isNull answer on the unmoved row, and whether a get/getRef on
\* that column followed it
AnswerSeen(col, ret) ==
    IF observe = "isNull" /\ first_null = NoAnswer /\ OnRow
           /\ col \in Ordinals /\ ret \in {"true", "false"}
    THEN first_null' = [column |-> col, ret |-> ret] /\ got_since' = FALSE
    ELSE UNCHANGED <<first_null, got_since>>
GetSeen(col) ==
    /\ got_since' = (got_since \/ (first_null # NoAnswer /\ first_null.column = col))
    /\ UNCHANGED first_null

Result_isNull(col) ==
    /\ \E o \in isNull(col) :
          /\ acc' = Access("isNull", col, "", o.ret, FALSE, FALSE, o.descriptor_read)
          /\ AnswerSeen(col, o.ret)
    /\ UNCHANGED <<cbdata_, got_data>>
    /\ AccessorFrame

Result_isNull_by_name(columnName) ==
    /\ IF column(columnName) = {}
       THEN /\ acc' = Access("isNull", -1, columnName, "IndexRangeError",
                             FALSE, FALSE, FALSE)
            /\ UNCHANGED <<first_null, got_since>>
       ELSE \E col \in column(columnName) : \E o \in isNull(col) :
               /\ acc' = Access("isNull", col, columnName, o.ret,
                                FALSE, FALSE, o.descriptor_read)
               /\ AnswerSeen(col, o.ret)
    /\ UNCHANGED <<cbdata_, got_data>>
    /\ AccessorFrame

Result_get(col, has_fallback) ==
    /\ getRef(col, has_fallback)
    /\ GetSeen(col)
    /\ AccessorFrame

Result_get_by_name(columnName, has_fallback) ==
    /\ getRef_by_name(columnName, has_fallback)
    /\ GetSeen(acc'.column)
    /\ AccessorFrame

\* columnName(column), columnSize(column), columnDecimalDigits(column),
\* columnDatatype(column), columnCDatatype(column): one and the same code
Result_column_attribute(col) ==
    /\ \E o \in column_attribute(col) :
          acc' = Access("column_attribute", col, "", o.ret,
                        FALSE, FALSE, o.descriptor_read)
    /\ UNCHANGED <<cbdata_, got_data, first_null, got_since>>
    /\ AccessorFrame


\* column(columnName) of the public interface
Result_column(columnName) ==
    /\ IF column(columnName) = {}
       THEN acc' = Access("column", -1, columnName, "IndexRangeError",
                          FALSE, FALSE, FALSE)
       ELSE \E col \in column(columnName) :
               acc' = Access("column", col, columnName, "value", FALSE, FALSE, TRUE)
    /\ UNCHANGED <<cbdata_, got_data, first_null, got_since>>
    /\ AccessorFrame

\* ------------------------------------------------------------- nextResult
\* auto_bind() that does not clear the name map before it registers the
\* new names
auto_bind_keeps_names(columns) ==
    /\ bound_columns_' = [i \in 1 .. Len(columns) |-> bind_column(describe_column(columns, i - 1))]
    /\ bound_columns_by_name_' =
          LET new == register_names(columns, Len(columns))
          IN  [nm \in DOMAIN bound_columns_by_name_ \cup DOMAIN new |->
                  IF nm \in DOMAIN new THEN new[nm] ELSE bound_columns_by_name_[nm]]
    /\ cbdata_' = [c \in 0 .. (Len(columns) - 1) |-> [j \in Slots |-> Indeterminate]]

\* auto_bind(): cleanup_bound_columns(), then the descriptors, the name
\* map and fresh indicator arrays for the columns of the shape
auto_bind(columns) ==
    /\ bound_columns_' = [i \in 1 .. Len(columns) |-> bind_column(describe_column(columns, i - 1))]
    /\ bound_columns_by_name_' = register_names(columns, Len(columns))
    /\ cbdata_' = [c \in 0 .. (Len(columns) - 1) |-> [j \in Slots |-> Indeterminate]]

\* nextResult(): SQLMoreResults; SQL_NO_DATA: false, nothing changed;
\* otherwise the driver is before the first row of the next result set and
\* the columns are bound anew.  row_count_, rowset_position_ and at_end_
\* are not touched.
nextResult ==
    /\ IF more_results = << >>
       THEN /\ nav' = [op |-> "nextResult", arg |-> 0, ret |-> "false", from |-> RowOrNone,
                         fetch |-> "none"]
            /\ UNCHANGED <<result_columns, more_results, result_index, rowset_start,
                           got_data, bindVars, cbdata_>>
       ELSE /\ nav' = [op |-> "nextResult", arg |-> 0, ret |-> "true", from |-> RowOrNone,
                         fetch |-> "none"]
            /\ result_columns' = Head(more_results)
            /\ more_results' = Tail(more_results)
            /\ result_index' = result_index + 1
            /\ rowset_start' = BeforeStart
            /\ got_data' = {}
            /\ auto_bind(Head(more_results))
            /\ UNCHANGED rowset_size_
    /\ acc' = NoAccess /\ first_null' = NoAnswer /\ got_since' = FALSE
    /\ EndRun
    /\ UNCHANGED <<result_rows, row_number_mode, writes_blob_indicator, null_row, null_col,
                   row_count_, rowset_position_, at_end_, observe, asyncVars,
                   outsideResult>>

\* ------------------------------------------- the chunked read of one cell
\* the content of a cell of length L: element i is i, so that an element
\* dropped, repeated or out of place shows
Stored(L) == [i \in 1 .. L |-> i]

ElementSize(ct) == IF ct = "SQL_C_WCHAR" THEN sizeof_wide_char_t ELSE 1
BufferElements(ct) == buffer_size \div ElementSize(ct)

\* the driver: the elements one SQLGetData call can place in BufferLength
\* bytes; character data is null-terminated, binary data is not
DriverCapacity(ct) ==
    IF ct = "SQL_C_BINARY" THEN BufferElements(ct) ELSE BufferElements(ct) - 1

\* the driver: one SQLGetData call on the cell into the buffer buf.  The
\* length it stores is the length still to come before this call, in bytes,
\* or SQL_NO_TOTAL for a truncated part when it does not know that length.
GetDataCall(buf) ==
    LET remaining == Len(content) - returned
        n == Min(remaining, DriverCapacity(ctype_))
        truncated == remaining > DriverCapacity(ctype_)
    IN  [rc |-> IF truncated THEN "SQL_SUCCESS_WITH_INFO" ELSE "SQL_SUCCESS",
         ValueLenOrInd |-> IF truncated /\ ~reports_total THEN SQL_NO_TOTAL
                           ELSE remaining * ElementSize(ctype_),
         buffer |-> [i \in DOMAIN buf |->
                        IF i <= n THEN content[returned + i]
                        ELSE IF i = n + 1 /\ ctype_ # "SQL_C_BINARY" THEN 0
                        ELSE buf[i]],
         n |-> n]

\* the elements the loop body appends for the length the driver stored
AppendCount(ValueLenOrInd) ==
    IF ValueLenOrInd <= 0 THEN 0
    ELSE IF target = "bytes" THEN Min(ValueLenOrInd, buffer_size)
    ELSE IF ctype_ = "SQL_C_WCHAR"
    THEN Min(ValueLenOrInd \div sizeof_wide_char_t,
             (buffer_size \div sizeof_wide_char_t) - 1)
    ELSE Min(ValueLenOrInd,
             IF ctype_ = "SQL_C_BINARY" THEN buffer_size ELSE buffer_size - 1)

\* one pass of the do-while body of get_ref_impl<StringType> (the buffer is
\* zeroed in each pass) or of get_ref_impl<std::vector<std::uint8_t>> (the
\* buffer is zeroed once, before the loop)
get_ref_impl_chunk ==
    /\ ctype_ # "none"
    /\ rc \in {"none", "SQL_SUCCESS_WITH_INFO"}
    /\ LET fresh == [i \in 1 .. BufferElements(ctype_) |-> 0]
           d == GetDataCall(IF target = "bytes" /\ rc # "none" THEN buffer ELSE fresh)
       IN  /\ buffer' = d.buffer
           /\ returned' = returned + d.n
           /\ rc' = d.rc
           /\ out' = out \o SubSeq(d.buffer, 1, AppendCount(d.ValueLenOrInd))
           /\ calls' = calls + 1
    /\ UNCHANGED <<content, ctype_, reports_total, target, pdata_, Result, resultVars,
                   txnVars, stmtVars>>

\* ------------------------------------------------ the typed read of one cell
TypeIncompatipleError == [ret |-> "TypeIncompatipleError"]
Value(v) == [ret |-> "value", value |-> v]
NoResult == [ret |-> "none"]

\* get_ref_impl<date> with month and day taken from the wrong fields
get_ref_impl_date_swapped(ct, s) ==
    CASE ct = "SQL_C_DATE" -> Value(s)
      [] ct = "SQL_C_TIMESTAMP" ->
            Value([year |-> s.year, month |-> s.day, day |-> s.month])
      [] OTHER -> TypeIncompatipleError

\* get_ref_impl<date>(column, Result) on a cell bound as ct holding s
get_ref_impl_date(ct, s) ==
    CASE ct = "SQL_C_DATE" -> Value(s)
      [] ct = "SQL_C_TIMESTAMP" ->
            Value([year |-> s.year, month |-> s.month, day |-> s.day])
      [] OTHER -> TypeIncompatipleError

\* get_ref_impl<time>
get_ref_impl_time(ct, s) ==
    CASE ct = "SQL_C_TIME" -> Value(s)
      [] ct = "SQL_C_TIMESTAMP" ->
            Value([hour |-> s.hour, min |-> s.min, sec |-> s.sec])
      [] OTHER -> TypeIncompatipleError

\* get_ref_impl<timestamp>
get_ref_impl_timestamp(ct, s) ==
    CASE ct = "SQL_C_DATE" ->
            Value([year |-> s.year, month |-> s.month, day |-> s.day,
                   hour |-> 0, min |-> 0, sec |-> 0, fract |-> 0])
      [] ct = "SQL_C_TIMESTAMP" -> Value(s)
      [] OTHER -> TypeIncompatipleError

\* (T) v for the integer targets: the value modulo the width of T
Cast(T, v) ==
    IF T = "short" THEN ((v + 32768) % 65536) - 32768 ELSE v

\* the generic get_ref_impl<T>: the C types the switch reads, each as its
\* own type at the start of the cell; a character cell yields its first
\* char (the terminator, 0, for an empty string)
get_ref_impl_T(T, ct, s) ==
    CASE ct = "SQL_C_CHAR" -> Value(Cast(T, IF Len(s) = 0 THEN 0 ELSE s[1]))
      [] ct \in {"SQL_C_SBIGINT", "SQL_C_DOUBLE"} -> Value(Cast(T, s))
      [] OTHER -> TypeIncompatipleError

NumericTargets == {"short", "int64_t"}

\* getRef<T> on a non-NULL cell of the current row: get_ref_impl<T>
Result_get_as(T) ==
    /\ ctype_ # "none" /\ rc = "none"
    /\ target' = T
    /\ Result' = CASE T = "date" -> get_ref_impl_date(ctype_, pdata_)
                   [] T = "time" -> get_ref_impl_time(ctype_, pdata_)
                   [] T = "timestamp" -> get_ref_impl_timestamp(ctype_, pdata_)
                   [] OTHER -> get_ref_impl_T(T, ctype_, pdata_)
    /\ UNCHANGED <<ctype_, pdata_, chunkVars, resultVars, txnVars, stmtVars>>

\* ------------------------------------------------------------ transactions
Transactions == 1 .. MaxTransactions

NoTxnCall == [op |-> "none", t |-> 0, already |-> FALSE, before |-> 0, after |-> 0,
              native |-> << >>, marked_before |-> FALSE]

\* ConnectionImpl::unrefTransaction(): the count it leaves
unrefTransaction(n) == IF n > 0 THEN n - 1 ELSE n

\* the driver: SQLEndTran(SQL_COMMIT) makes the pending work of the
\* connection durable, SQLEndTran(SQL_ROLLBACK) undoes it, and switching
\* SQL_ATTR_AUTOCOMMIT on commits what is pending
SQLEndTran(call, w) ==
    [t \in Transactions |->
        IF w[t] # "pending" THEN w[t]
        ELSE IF call = "SQL_ROLLBACK" THEN "undone" ELSE "durable"]

RECURSIVE Apply(_, _)
Apply(calls_, w) ==
    IF calls_ = << >> THEN w ELSE Apply(Tail(calls_), SQLEndTran(Head(calls_), w))

\* TransactionImpl(conn)
Transaction_begin(t) ==
    /\ committed_[t] = "unborn"
    /\ committed_' = [committed_ EXCEPT ![t] = "false"]
    /\ alive' = [alive EXCEPT ![t] = TRUE]
    /\ autocommit' = IF transactions_ = 0 /\ connected_ THEN "off" ELSE autocommit
    /\ transactions_' = transactions_ + 1
    /\ txn_call' = [NoTxnCall EXCEPT !.op = "begin", !.t = t, !.before = transactions_,
                                     !.after = transactions_ + 1, !.marked_before = marked]
    /\ UNCHANGED <<connected_, rollback_, work, marked, resultVars, chunkVars, cellVars, stmtVars>>

\* a modifying statement executed under the open, uncommitted Transaction t
execute(t) ==
    /\ alive[t] /\ committed_[t] = "false" /\ connected_
    /\ work[t] = "none"
    /\ work' = [work EXCEPT ![t] = IF autocommit = "on" THEN "durable" ELSE "pending"]
    /\ txn_call' = [NoTxnCall EXCEPT !.op = "execute", !.t = t, !.before = transactions_,
                                     !.after = transactions_, !.marked_before = marked]
    /\ UNCHANGED <<connected_, transactions_, rollback_, autocommit, committed_, alive,
                   marked, resultVars, chunkVars, cellVars, stmtVars>>

\* commit() without the test of committed_
commit_unguarded(t) ==
    /\ alive[t]
    /\ LET after == unrefTransaction(transactions_)
           native == IF after = 0 /\ connected_ THEN <<"SQL_COMMIT">> ELSE << >>
       IN  /\ committed_' = [committed_ EXCEPT ![t] = "true"]
           /\ transactions_' = after
           /\ work' = Apply(native, work)
           /\ txn_call' = [op |-> "commit", t |-> t, already |-> committed_[t] = "true",
                           before |-> transactions_, after |-> after,
                           native |-> native, marked_before |-> marked]
    /\ UNCHANGED <<connected_, rollback_, autocommit, alive, marked,
                   resultVars, chunkVars, cellVars, stmtVars>>

\* TransactionImpl::commit()
commit(t) ==
    /\ alive[t]
    /\ IF committed_[t] = "true"
       THEN /\ txn_call' = [op |-> "commit", t |-> t, already |-> TRUE,
                            before |-> transactions_, after |-> transactions_,
                            native |-> << >>, marked_before |-> marked]
            /\ UNCHANGED <<committed_, transactions_, work>>
       ELSE LET after == unrefTransaction(transactions_)
                native == IF after = 0 /\ connected_ THEN <<"SQL_COMMIT">> ELSE << >>
            IN  /\ committed_' = [committed_ EXCEPT ![t] = "true"]
                /\ transactions_' = after
                /\ work' = Apply(native, work)
                /\ txn_call' = [op |-> "commit", t |-> t, already |-> FALSE,
                                before |-> transactions_, after |-> after,
                                native |-> native, marked_before |-> marked]
    /\ UNCHANGED <<connected_, rollback_, autocommit, alive, marked,
                   resultVars, chunkVars, cellVars, stmtVars>>

\* TransactionImpl::rollback()
rollback(t) ==
    /\ alive[t]
    /\ rollback_' = IF committed_[t] = "true" THEN rollback_ ELSE TRUE
    /\ marked' = IF committed_[t] = "true" THEN marked ELSE TRUE
    /\ txn_call' = [op |-> "rollback", t |-> t, already |-> committed_[t] = "true",
                    before |-> transactions_, after |-> transactions_,
                    native |-> << >>, marked_before |-> marked]
    /\ UNCHANGED <<connected_, transactions_, autocommit, committed_, alive, work,
                   resultVars, chunkVars, cellVars, stmtVars>>

\* ~TransactionImpl()
Transaction_end(t) ==
    /\ alive[t]
    /\ LET uncommitted == committed_[t] = "false"
           flag == IF uncommitted THEN TRUE ELSE rollback_
           after == IF uncommitted THEN unrefTransaction(transactions_) ELSE transactions_
           to_zero == after = 0 /\ connected_
           native == IF to_zero /\ flag THEN <<"SQL_ROLLBACK", "SQL_AUTOCOMMIT_ON">>
                     ELSE IF to_zero THEN <<"SQL_AUTOCOMMIT_ON">>
                     ELSE << >>
       IN  /\ alive' = [alive EXCEPT ![t] = FALSE]
           /\ transactions_' = after
           /\ rollback_' = IF to_zero THEN FALSE ELSE flag
           /\ autocommit' = IF to_zero THEN "on" ELSE autocommit
           /\ work' = Apply(native, work)
           /\ marked' = IF to_zero /\ flag THEN FALSE ELSE marked
           /\ txn_call' = [op |-> "end", t |-> t, already |-> ~uncommitted,
                           before |-> transactions_, after |-> after,
                           native |-> native, marked_before |-> marked]
    /\ UNCHANGED <<connected_, committed_, resultVars, chunkVars, cellVars, stmtVars>>

\* ConnectionImpl::disconnect(): SQLDisconnect fails while a transaction is
\* in progress on the connection (DatabaseError, connected_ not reached)
disconnect ==
    /\ IF connected_ /\ \E t \in Transactions : work[t] = "pending"
       THEN /\ txn_call' = [NoTxnCall EXCEPT !.op = "disconnect", !.already = TRUE,
                                             !.before = transactions_,
                                             !.after = transactions_,
                                             !.marked_before = marked]
            /\ UNCHANGED connected_
       ELSE /\ txn_call' = [NoTxnCall EXCEPT !.op = "disconnect",
                                             !.before = transactions_,
                                             !.after = transactions_,
                                             !.marked_before = marked]
            /\ connected_' = FALSE
    /\ UNCHANGED <<transactions_, rollback_, autocommit, committed_, alive, work, marked,
                   resultVars, chunkVars, cellVars, stmtVars>>

\* ConnectionImpl::connect(): disconnect(), then a fresh connection handle
\* (autocommit on, as the driver creates it) is connected
connect ==
    /\ IF connected_ /\ \E t \in Transactions : work[t] = "pending"
       THEN /\ txn_call' = [NoTxnCall EXCEPT !.op = "connect", !.already = TRUE,
                                             !.before = transactions_,
                                             !.after = transactions_,
                                             !.marked_before = marked]
            /\ UNCHANGED <<connected_, autocommit>>
       ELSE /\ txn_call' = [NoTxnCall EXCEPT !.op = "connect",
                                             !.before = transactions_,
                                             !.after = transactions_,
                                             !.marked_before = marked]
            /\ connected_' = TRUE
            /\ autocommit' = "on"
    /\ UNCHANGED <<transactions_, rollback_, committed_, alive, work, marked,
                   resultVars, chunkVars, cellVars, stmtVars>>


\* ------------------------------------------------------- Statement::bind
\* a null pointer passed for nullSentry: no value of the array equals it
NoSentry == -1
NoFlags == << >>
NoBindCall == [op |-> "none", nullSentry |-> NoSentry, nulls |-> NoFlags]

\* prepare_bind: the indicator vector of the parameter, at least 8 long,
\* every element SQL_NULL_DATA
prepare_bind(elements) ==
    [i \in 1 .. (IF elements > 8 THEN elements ELSE 8) |-> SQL_NULL_DATA]

\* StatementImpl::bind(param, values, elements, nulls, nullSentry): the
\* indicators after the loop over the elements
bind_loop(vals, nulls, nullSentry, size) ==
    [i \in DOMAIN prepare_bind(Len(vals)) |->
        IF i <= Len(vals)
           /\ (\/ (nullSentry # NoSentry /\ vals[i] # nullSentry)
               \/ (nulls # NoFlags /\ ~nulls[i])
               \/ nulls = NoFlags)
        THEN size
        ELSE prepare_bind(Len(vals))[i]]

StmtFrame == UNCHANGED <<values, parameterSize, resultVars, chunkVars, cellVars, txnVars>>

\* Statement::bind(param, values, elements): every element is bound
Statement_bind ==
    /\ bind_len_or_null_' =
          [i \in DOMAIN prepare_bind(Len(values)) |->
              IF i <= Len(values) THEN parameterSize ELSE prepare_bind(Len(values))[i]]
    /\ bind_call' = [op |-> "bind", nullSentry |-> NoSentry, nulls |-> NoFlags]
    /\ StmtFrame

\* Statement::bind(param, values, elements, nullSentry)
Statement_bind_sentry(nullSentry) ==
    /\ bind_len_or_null_' = bind_loop(values, NoFlags, nullSentry, parameterSize)
    /\ bind_call' = [op |-> "bind_sentry", nullSentry |-> nullSentry, nulls |-> NoFlags]
    /\ StmtFrame

\* Statement::bind(param, values, elements, nulls)
Statement_bind_nulls(nulls) ==
    /\ Len(nulls) = Len(values) /\ nulls # NoFlags
    /\ bind_len_or_null_' = bind_loop(values, nulls, NoSentry, parameterSize)
    /\ bind_call' = [op |-> "bind_nulls", nullSentry |-> NoSentry, nulls |-> nulls]
    /\ StmtFrame

\* ------------------------------------------------------------ construction
\* no chunked read under way
NoChunkedRead ==
    /\ content = << >> /\ ctype_ = "none" /\ reports_total = TRUE
    /\ target = "none" /\ buffer = << >>
    /\ returned = 0 /\ out = << >> /\ rc = "none" /\ calls = 0
    /\ pdata_ = << >> /\ Result = NoResult

\* a connection on which no Transaction was begun
NoTransactions ==
    /\ transactions_ = 0
    /\ rollback_ = FALSE
    /\ autocommit = "on"
    /\ committed_ = [t \in Transactions |-> "unborn"]
    /\ alive = [t \in Transactions |-> FALSE]
    /\ work = [t \in Transactions |-> "none"]
    /\ marked = FALSE
    /\ txn_call = NoTxnCall

\* a statement no parameter of which was bound
NothingBound ==
    /\ values = << >> /\ parameterSize = 0
    /\ bind_len_or_null_ = << >> /\ bind_call = NoBindCall

\* nothing but the Result object exists
NothingOutside == NoChunkedRead /\ NoTransactions /\ connected_ = TRUE /\ NothingBound

\* ResultImpl(stmt, rowsetSize): the member initialisers, then auto_bind()
Constructed(B) ==
    /\ rowset_size_ = B
    /\ row_count_ = 0
    /\ rowset_position_ = 0
    /\ at_end_ = FALSE
    /\ bound_columns_ = [i \in 1 .. Len(result_columns) |->
                             bind_column(describe_column(result_columns, i - 1))]
    /\ bound_columns_by_name_ = register_names(result_columns, Len(result_columns))
    /\ cbdata_ = [c \in 0 .. (Len(result_columns) - 1) |-> [j \in 0 .. (B - 1) |-> Indeterminate]]
    /\ async_ = FALSE
    /\ pending = "none"
    /\ async_call = NoAsyncCall

\* the statement produced one result set, of the shape (id, bio)
OneResult == result_columns = Shape /\ more_results = << >> /\ result_index = 1

\* a Result that is not used: batch size 1 over an empty result set
ResultUnused ==
    /\ result_rows = 0
    /\ rowset_start = 0
    /\ row_number_mode = "exact"
    /\ writes_blob_indicator = TRUE
    /\ null_row = 0 /\ null_col = 0
    /\ got_data = {}
    /\ OneResult
    /\ Constructed(1)
    /\ nav = NoCall /\ acc = NoAccess
    /\ observe = "access" /\ first_null = NoAnswer /\ got_since = FALSE
    /\ fwd = FALSE /\ hist = << >> /\ nfetch = 0

InitNav ==
    /\ result_rows \in 0 .. MaxRows
    /\ rowset_start = 0
    /\ row_number_mode \in {"exact", "zero", "unknown"}
    /\ writes_blob_indicator = TRUE
    /\ null_row = 0 /\ null_col = 0
    /\ got_data = {}
    /\ OneResult
    /\ \E B \in 1 .. MaxBatch : Constructed(B)
    /\ nav = NoCall /\ acc = NoAccess
    /\ observe = "run" /\ first_null = NoAnswer /\ got_since = FALSE
    /\ fwd = TRUE /\ hist = << >> /\ nfetch = 0
    /\ NothingOutside

MoveArgs == -1 .. (result_rows + 1)
SkipArgs == -MaxSkip .. MaxSkip

NextNav ==
    \/ first
    \/ last
    \/ next
    \/ prior
    \/ \E row \in MoveArgs : move(row)
    \/ \E n \in SkipArgs : skip(n)

SpecNav == InitNav /\ [][NextNav]_vars

\* the accessors on every row the navigation calls reach; one cell of the
\* data may be NULL, and the driver may or may not fill the indicators of
\* the columns bound without a data buffer
InitData(what) ==
    /\ result_rows \in 0 .. MaxDataRows
    /\ rowset_start = 0
    /\ row_number_mode = "exact"
    /\ writes_blob_indicator \in BOOLEAN
    /\ \/ null_row = 0 /\ null_col = 0
       \/ null_row \in 1 .. result_rows /\ null_col \in 0 .. (Len(Shape) - 1)
    /\ got_data = {}
    /\ OneResult
    /\ \E B \in 1 .. MaxDataBatch : Constructed(B)
    /\ nav = NoCall /\ acc = NoAccess
    /\ observe = what /\ first_null = NoAnswer /\ got_since = FALSE
    /\ fwd = FALSE /\ hist = << >> /\ nfetch = 0
    /\ NothingOutside

TriedOrdinals == -1 .. Len(Shape)

InitAccess == InitData("access")

\* the caller takes the result of an accessor call before its next call
Taken ==
    /\ acc # NoAccess
    /\ acc' = NoAccess
    /\ UNCHANGED <<driverVars, bindVars, rowset_start, row_count_, rowset_position_,
                   at_end_, cbdata_, got_data, nav, observe, first_null, got_since,
                   fwd, hist, nfetch, asyncVars, outsideResult>>

NextAccess ==
    \/ acc = NoAccess /\ NextNav
    \/ acc = NoAccess /\ \E col \in TriedOrdinals : Result_isNull(col)
    \/ acc = NoAccess /\ \E nm \in Names : Result_isNull_by_name(nm)
    \/ acc = NoAccess /\ \E col \in TriedOrdinals, fb \in BOOLEAN : Result_get(col, fb)
    \/ acc = NoAccess /\ \E nm \in Names, fb \in BOOLEAN : Result_get_by_name(nm, fb)
    \/ acc = NoAccess /\ \E col \in TriedOrdinals : Result_column_attribute(col)
    \/ Taken

SpecAccess == InitAccess /\ [][NextAccess]_vars

InitIsNull == InitData("isNull")

NextIsNull ==
    \/ acc = NoAccess /\ NextNav
    \/ acc = NoAccess /\ \E col \in 0 .. (Len(Shape) - 1) : Result_isNull(col)
    \/ acc = NoAccess /\ \E col \in 0 .. (Len(Shape) - 1), fb \in BOOLEAN : Result_get(col, fb)
    \/ Taken

SpecIsNull == InitIsNull /\ [][NextIsNull]_vars


\* the shapes a statement's result sets take: (id, bio), (total), one with
\* a column name used twice, and one without columns
ShapeTotal == <<[name |-> "total", sqltype |-> SQL_BIGINT, sqlsize |-> 19]>>
ShapeTwice ==
    <<[name |-> "id",  sqltype |-> SQL_BIGINT,  sqlsize |-> 19],
      [name |-> "bio", sqltype |-> SQL_VARCHAR, sqlsize |-> 0],
      [name |-> "id",  sqltype |-> SQL_VARCHAR, sqlsize |-> 0]>>
Shapes == {Shape, ShapeTotal, ShapeTwice, << >>}
ShapeNames == {"id", "bio", "total", "nope"}

\* a statement with up to MaxResults result sets, every one of
\* result_rows rows without NULLs
InitResults ==
    /\ result_rows \in 0 .. MaxDataRows
    /\ rowset_start = 0
    /\ row_number_mode = "exact"
    /\ writes_blob_indicator = TRUE
    /\ null_row = 0 /\ null_col = 0
    /\ got_data = {}
    /\ result_columns \in Shapes
    /\ \E n \in 0 .. (MaxResults - 1) : more_results \in [1 .. n -> Shapes]
    /\ result_index = 1
    /\ \E B \in 1 .. MaxDataBatch : Constructed(B)
    /\ nav = NoCall /\ acc = NoAccess
    /\ observe = "access" /\ first_null = NoAnswer /\ got_since = FALSE
    /\ fwd = FALSE /\ hist = << >> /\ nfetch = 0
    /\ NothingOutside

ResultOrdinals == -1 .. 3

NextResults ==
    \/ acc = NoAccess /\ next
    \/ acc = NoAccess /\ nextResult
    \/ acc = NoAccess /\ \E col \in ResultOrdinals : Result_isNull(col)
    \/ acc = NoAccess /\ \E nm \in ShapeNames : Result_isNull_by_name(nm)
    \/ acc = NoAccess /\ \E nm \in ShapeNames : Result_column(nm)
    \/ acc = NoAccess /\ \E col \in ResultOrdinals : Result_column_attribute(col)
    \/ Taken

SpecResults == InitResults /\ [][NextResults]_vars

\* a get/getRef of a non-NULL variable-length cell, for every content length
\* up to MaxContent, read as narrow text, wide text or binary into a string
\* and as binary into a byte vector
InitChunk ==
    /\ \E L \in 0 .. MaxContent : content = Stored(L)
    /\ \/ ctype_ \in {"SQL_C_CHAR", "SQL_C_BINARY", "SQL_C_WCHAR"} /\ target = "string"
       \/ ctype_ = "SQL_C_BINARY" /\ target = "bytes"
    /\ reports_total \in BOOLEAN
    /\ buffer = << >>
    /\ returned = 0 /\ out = << >> /\ rc = "none" /\ calls = 0
    /\ pdata_ = << >> /\ Result = NoResult
    /\ NoTransactions /\ connected_ = TRUE /\ NothingBound
    /\ ResultUnused

NextChunk == get_ref_impl_chunk

SpecChunk == InitChunk /\ [][NextChunk]_vars


\* the values a bound, non-NULL cell of a column of this C type can hold
Dates == [year : {1999, 2024}, month : {1, 12}, day : {1, 31}]
Times == [hour : {0, 23}, min : {0, 59}, sec : {0, 59}]
Timestamps == [year : {1999, 2024}, month : {1, 12}, day : {1, 31},
               hour : {0, 23}, min : {0, 59}, sec : {0, 59}, fract : {0, 500}]
CellValues(ct) ==
    CASE ct = "SQL_C_DATE" -> Dates
      [] ct = "SQL_C_TIME" -> Times
      [] ct = "SQL_C_TIMESTAMP" -> Timestamps
      [] ct = "SQL_C_SBIGINT" -> {-1, 0, 65, 70000}
      [] ct = "SQL_C_DOUBLE" -> {0, 7}
      [] ct \in {"SQL_C_CHAR", "SQL_C_WCHAR"} -> {<< >>, <<65>>, <<49, 50>>}
      [] OTHER -> {<< >>}

SqlTypes == {SQL_BIGINT, "SQL_INTEGER", "SQL_DOUBLE", "SQL_NUMERIC", "SQL_TYPE_DATE",
             "SQL_TYPE_TIME", "SQL_TYPE_TIMESTAMP", "SQL_CHAR", "SQL_WCHAR",
             "SQL_VARBINARY", "SQL_GUID"}

\* a typed read of a non-NULL cell of a column of every kind auto_bind binds
InitCell ==
    /\ \E sqltype \in SqlTypes :
          /\ ctype_ = sql_ctype(sqltype)
          /\ pdata_ \in CellValues(ctype_)
    /\ target = "none" /\ Result = NoResult
    /\ content = << >> /\ reports_total = TRUE /\ buffer = << >>
    /\ returned = 0 /\ out = << >> /\ rc = "none" /\ calls = 0
    /\ NoTransactions /\ connected_ = TRUE /\ NothingBound
    /\ ResultUnused

NextCell == \E T \in NumericTargets \cup {"date", "time", "timestamp"} : Result_get_as(T)

SpecCell == InitCell /\ [][NextCell]_vars


\* Transactions begun, used, committed, marked and destroyed in any order
\* on one connection, connected or not
InitTxn ==
    /\ connected_ \in BOOLEAN
    /\ NoTransactions
    /\ NoChunkedRead /\ NothingBound
    /\ ResultUnused

NextTxn ==
    \/ \E t \in Transactions : Transaction_begin(t)
    \/ \E t \in Transactions : execute(t)
    \/ \E t \in Transactions : commit(t)
    \/ \E t \in Transactions : rollback(t)
    \/ \E t \in Transactions : Transaction_end(t)

SpecTxn == InitTxn /\ [][NextTxn]_vars

\* Transactions on a connection that is connected and disconnected
NextConn ==
    \/ NextTxn
    \/ connect
    \/ disconnect

SpecConn == InitTxn /\ [][NextConn]_vars



\* one parameter bound to arrays of up to MaxElements values
BoundValues == 0 .. 2
InitBind ==
    /\ \E n \in 0 .. MaxElements : values \in [1 .. n -> BoundValues]
    /\ parameterSize \in {4, 10}
    /\ bind_len_or_null_ = << >> /\ bind_call = NoBindCall
    /\ NoChunkedRead /\ NoTransactions /\ connected_ = TRUE
    /\ ResultUnused

NextBind ==
    \/ Statement_bind
    \/ \E nullSentry \in BoundValues : Statement_bind_sentry(nullSentry)
    \/ \E nulls \in [1 .. Len(values) -> BOOLEAN] : Statement_bind_nulls(nulls)

SpecBind == InitBind /\ [][NextBind]_vars


\* result sets with a column of every kind the switch of auto_bind tells
\* apart, of declared size 0 ("unlimited") and 10: the first result set
\* has one such column, the second has one followed by a BIGINT
ColumnTypes == {SQL_BIGINT, "SQL_DOUBLE", "SQL_TYPE_DATE", "SQL_TYPE_TIME",
                "SQL_TYPE_TIMESTAMP", "SQL_CHAR", SQL_VARCHAR, "SQL_WCHAR",
                "SQL_WVARCHAR", "SQL_LONGVARCHAR", "SQL_VARBINARY", "SQL_GUID"}

InitColumns ==
    /\ result_rows \in 0 .. MaxDataRows
    /\ rowset_start = 0
    /\ row_number_mode = "exact"
    /\ writes_blob_indicator = TRUE
    /\ null_row = 0 /\ null_col = 0
    /\ got_data = {}
    /\ \E k \in [name : {"a"}, sqltype : ColumnTypes, sqlsize : {0, 10}] :
          result_columns = <<k>>
    /\ \E k \in [name : {"a"}, sqltype : ColumnTypes, sqlsize : {0, 10}] :
          more_results = << <<k, [name |-> "b", sqltype |-> SQL_BIGINT, sqlsize |-> 19]>> >>
    /\ result_index = 1
    /\ \E B \in 1 .. MaxDataBatch : Constructed(B)
    /\ nav = NoCall /\ acc = NoAccess
    /\ observe = "run" /\ first_null = NoAnswer /\ got_since = FALSE
    /\ fwd = FALSE /\ hist = << >> /\ nfetch = 0
    /\ NothingOutside

NextColumns ==
    \/ next
    \/ nextResult

SpecColumns == InitColumns /\ [][NextColumns]_vars


\* forward moves with and without an event handle, the driver free to
\* fail a fetch or, with a handle, to leave it executing
InitAsync ==
    /\ result_rows \in 0 .. MaxDataRows
    /\ rowset_start = 0
    /\ row_number_mode = "exact"
    /\ writes_blob_indicator = TRUE
    /\ null_row = 0 /\ null_col = 0
    /\ got_data = {}
    /\ OneResult
    /\ \E B \in 1 .. MaxDataBatch : Constructed(B)
    /\ nav = NoCall /\ acc = NoAccess
    /\ observe = "access" /\ first_null = NoAnswer /\ got_since = FALSE
    /\ fwd = FALSE /\ hist = << >> /\ nfetch = 0
    /\ NothingOutside

NextAsync ==
    \/ next_event("next", "nullptr")
    \/ asyncNext
    \/ completeNext

SpecAsync == InitAsync /\ [][NextAsync]_vars


\* ------------------------------------------------------------------ claims

\* C1: in a forward run (a fresh Result, or first(), followed by next()
\* calls only) the rows made current are 0, 1, 2, ... in order, each once;
\* a next() that returns true is on the row it recorded, and a next() that
\* returns false comes only after all result_rows rows were visited.
C1_ForwardVisitsEveryRowOnce ==
    fwd =>
        /\ \A i \in 1 .. Len(hist) : hist[i] = i - 1
        /\ Len(hist) <= result_rows
        /\ (nav.op = "next" /\ nav.ret = "true" =>
                OnRow /\ CurrentRow = Len(hist) - 1)
        /\ (nav.op = "next" /\ nav.ret = "false" => Len(hist) = result_rows)

C1_Witness ==
    /\ fwd /\ nav.op = "next" /\ nav.ret = "false"
    /\ result_rows = 3 /\ rowset_size_ = 2
    /\ hist = <<0, 1, 2>>

\* C2: with more rows than the batch holds, a forward run serves its first
\* rowset_size_ rows with one native fetch, and the move to the row after
\* them has issued exactly one more.
C2_OneFetchPerBatch ==
    fwd /\ result_rows > rowset_size_ /\ nav.op = "next" /\ nav.ret = "true" =>
        /\ (Len(hist) <= rowset_size_ => nfetch = 1)
        /\ (Len(hist) = rowset_size_ + 1 => nfetch = 2)

C2_Witness ==
    /\ fwd /\ nav.op = "next" /\ nav.ret = "true"
    /\ rowset_size_ = 2 /\ result_rows > 2
    /\ Len(hist) = 3 /\ nfetch = 2

\* C6: skip(n) with n >= 1 from row r, r + n < N, returns true and leaves
\* the cursor on row r + n.
C6_SkipLandsOnRowPlusN ==
    nav.op = "skip" /\ nav.from >= 0 /\ nav.arg >= 1
            /\ nav.from + nav.arg < result_rows =>
        nav.ret = "true" /\ OnRow /\ CurrentRow = nav.from + nav.arg

\* C7: prior() from row r > 0 returns true and leaves the cursor on row r - 1.
C7_PriorLandsOnRowMinusOne ==
    nav.op = "prior" /\ nav.from > 0 =>
        nav.ret = "true" /\ OnRow /\ CurrentRow = nav.from - 1

\* C8: in a forward run atEnd() is true after a next() exactly when that
\* next() returned false (not before the rows are exhausted, and from the
\* first false next() on).
C8_AtEndOneCallPastLastRow ==
    fwd /\ nav.op = "next" => (atEnd <=> nav.ret = "false")

\* C9: atEnd() is false whenever the last navigation call returned true.
C9_AtEndOnlyWhenNoMoreResults ==
    nav.ret = "true" => ~atEnd

\* C3: a get/getRef on a cell whose null indicator is set raises
\* NullAccessError without a fallback and returns the fallback with one,
\* reading no row buffer and making no native call, by ordinal and by name.
C3_NullCellRaisesOrFallsBack ==
    acc.op \in {"get", "getFallback"} /\ acc.indicator_set =>
        /\ acc.ret = (IF acc.op = "get" THEN "NullAccessError" ELSE "fallback")
        /\ ~acc.buffer_read
        /\ ~acc.native_call

C3_Witness ==
    /\ acc.op = "getFallback" /\ acc.name = "bio" /\ acc.indicator_set
    /\ acc.ret = "fallback"
    /\ rowset_position_ = 1

\* C4: every accessor called with an ordinal outside [0, column count)
\* raises IndexRangeError and reads no column descriptor.
C4_OutOfRangeOrdinalRaisesIndexError ==
    acc.op # "none" /\ acc.name = "" /\ acc.column \notin Ordinals =>
        acc.ret = "IndexRangeError" /\ ~acc.descriptor_read

\* C5: isNull and get/getRef issued while rowset_position_ is not below
\* the rows of the last fetch (also before any fetch) raise IndexRangeError
\* and read nothing.
C5_OffRowAccessRaisesIndexError ==
    acc.op \in {"isNull", "get", "getFallback"} /\ rowset_position_ >= row_count_ =>
        /\ acc.ret = "IndexRangeError"
        /\ ~acc.buffer_read
        /\ ~acc.native_call

C5_Witness ==
    /\ acc.op = "get" /\ acc.column = 0 /\ acc.name = ""
    /\ row_count_ = 1 /\ rowset_position_ = 1
    /\ acc.ret = "IndexRangeError"

\* C10: on an unmoved row an isNull answer equals the first isNull answer
\* for that column, whatever get/getRef calls came between.
C10_IsNullSameBeforeAndAfterGet ==
    /\ acc.op = "isNull" /\ acc.ret \in {"true", "false"}
    /\ OnRow /\ first_null # NoAnswer /\ acc.column = first_null.column
    => acc.ret = first_null.ret

\* C10 amended: the isNull answer on an unmoved row stays the same as long
\* as no get/getRef on that column came between, and for a column bound
\* with a data buffer also across get/getRef calls on it.
C10_IsNullStableUnlessBlobRead ==
    /\ acc.op = "isNull" /\ acc.ret \in {"true", "false"}
    /\ OnRow /\ first_null # NoAnswer /\ acc.column = first_null.column
    /\ (~got_since \/ ~bound_columns_[acc.column + 1].blob_)
    => acc.ret = first_null.ret

C10_Witness ==
    /\ acc.op = "isNull" /\ acc.ret = "true" /\ acc.column = 0
    /\ first_null = [column |-> 0, ret |-> "true"]
    /\ got_since

\* C11: get without a fallback on a variable-length column whose cell is
\* NULL in the current row raises NullAccessError, also on the first access
\* after the fetch.
C11_NullBlobGetRaisesNullAccess ==
    /\ acc.op = "get" /\ acc.column \in Ordinals /\ OnRow
    /\ bound_columns_[acc.column + 1].blob_
    /\ CellIsNull(rowset_start + rowset_position_, acc.column)
    => acc.ret = "NullAccessError"

\* C12: when the chunk loop of a variable-length cell ends, what it has
\* assembled is the stored content, element for element, whatever the
\* content length is in relation to the chunk capacity, and the loop has
\* made no call after the first one that did not signal more data.
C12_BlobRoundTrip ==
    rc = "SQL_SUCCESS" =>
        /\ out = content
        /\ returned = Len(content)

\* C13: a read of a cell into a numeric target returns a value only from a
\* column bound as a number; from a column bound as narrow or wide
\* characters, binary, date, time or timestamp it raises
\* TypeIncompatipleError.
C13_UnsupportedPairRaises ==
    target \in NumericTargets /\ ctype_ \notin {"SQL_C_SBIGINT", "SQL_C_DOUBLE"} =>
        Result = TypeIncompatipleError

\* C14: the date, time and timestamp targets follow the conversion matrix:
\* date as timestamp keeps year/month/day and zeroes the rest, timestamp as
\* date or time keeps that half, same kind is the identity, every other
\* native kind raises TypeIncompatipleError.
C14_DateTimeConversionMatrix ==
    target \in {"date", "time", "timestamp"} =>
        CASE ctype_ = "SQL_C_DATE" /\ target = "timestamp" ->
                Result = Value([year |-> pdata_.year, month |-> pdata_.month,
                                day |-> pdata_.day, hour |-> 0, min |-> 0,
                                sec |-> 0, fract |-> 0])
          [] ctype_ = "SQL_C_TIMESTAMP" /\ target = "date" ->
                Result = Value([year |-> pdata_.year, month |-> pdata_.month,
                                day |-> pdata_.day])
          [] ctype_ = "SQL_C_TIMESTAMP" /\ target = "time" ->
                Result = Value([hour |-> pdata_.hour, min |-> pdata_.min,
                                sec |-> pdata_.sec])
          [] ctype_ = "SQL_C_DATE" /\ target = "date" -> Result = Value(pdata_)
          [] ctype_ = "SQL_C_TIME" /\ target = "time" -> Result = Value(pdata_)
          [] ctype_ = "SQL_C_TIMESTAMP" /\ target = "timestamp" -> Result = Value(pdata_)
          [] OTHER -> Result = TypeIncompatipleError

C14_Witness ==
    /\ target = "date" /\ ctype_ = "SQL_C_TIMESTAMP"
    /\ pdata_.month = 1 /\ pdata_.day = 31 /\ pdata_.hour = 23
    /\ Result = Value([year |-> 2024, month |-> 1, day |-> 31])

\* the names of the columns of a shape, and the lowest ordinal of a name
NamesOf(columns) == {columns[i].name : i \in 1 .. Len(columns)}
FirstNamed(columns, nm) ==
    CHOOSE i \in 0 .. (Len(columns) - 1) :
        /\ columns[i + 1].name = nm
        /\ \A k \in 0 .. (i - 1) : columns[k + 1].name # nm

\* C15: the bound columns are those of the current result set, also after
\* nextResult(): as many as its shape has, ordinal i is its column i, an
\* ordinal at or above the count raises IndexRangeError, only names of
\* that shape resolve; nextResult() returning false changes no binding.
C15_BindingsFollowResultShape ==
    /\ bound_columns_size_ = Len(result_columns)
    /\ \A i \in Ordinals :
          /\ bound_columns_[i + 1].name_ = result_columns[i + 1].name
          /\ bound_columns_[i + 1].sqltype_ = result_columns[i + 1].sqltype
          /\ bound_columns_[i + 1].column_ = i
    /\ DOMAIN bound_columns_by_name_ = NamesOf(result_columns)
    /\ (acc.op # "none" /\ acc.name = "" /\ acc.column >= Len(result_columns) =>
            acc.ret = "IndexRangeError")
    /\ (acc.op # "none" /\ acc.name # "" /\ acc.name \notin NamesOf(result_columns) =>
            acc.ret = "IndexRangeError")

C15_Witness ==
    /\ result_index = 2 /\ result_columns = ShapeTotal
    /\ acc.op = "isNull" /\ acc.name = "bio" /\ acc.ret = "IndexRangeError"
    /\ bound_columns_size_ = 1

\* C16: a name carried by more than one column resolves to the first,
\* lowest-ordinal column of that name, in column(name) and in the
\* accessors by name.
C16_DuplicateNameResolvesToFirst ==
    acc.op # "none" /\ acc.name \in NamesOf(result_columns) =>
        acc.column = FirstNamed(result_columns, acc.name)

\* C17: the modifying operation of a Transaction that was destroyed without
\* having been committed is never made durable, nested or not.
C17_UncommittedWorkNeverDurable ==
    \A t \in Transactions :
        ~alive[t] /\ committed_[t] = "false" => work[t] # "durable"

\* C18: once rollback() was called on an uncommitted Transaction, no call
\* issues a native COMMIT on the connection before a native ROLLBACK was
\* issued; rollback() on a committed Transaction changes nothing.
C18_NoCommitOnceMarked ==
    /\ (txn_call.marked_before => "SQL_COMMIT" \notin
            {txn_call.native[i] : i \in 1 .. Len(txn_call.native)})
    /\ (txn_call.op = "rollback" /\ txn_call.already => marked = txn_call.marked_before)

C20_SentryElementsBoundAsNull ==
    bind_call.op = "bind_sentry" =>
        \A i \in 1 .. Len(values) :
            bind_len_or_null_[i] =
                (IF values[i] = bind_call.nullSentry THEN SQL_NULL_DATA ELSE parameterSize)

\* C22: whenever the last navigation call (first, last, next, prior, move or
\* skip, skip with positive or negative counts) returned true, the in-batch
\* offset lies in [0, rows of the last native fetch).
C22_OffsetWithinFetchedRows ==
    nav.op # "none" /\ nav.ret = "true" =>
        rowset_position_ >= 0 /\ rowset_position_ < row_count_

\* C23: after auto_bind the indicator array of every result column has at
\* least max(rowset_size_, 8) entries.
C23_IndicatorArrayAtLeastEight ==
    \A c \in Ordinals : Cardinality(DOMAIN cbdata_[c]) >= IF rowset_size_ > 8 THEN rowset_size_ ELSE 8

\* the driver returns row data at a fetch only for a column bound with a
\* data buffer
FetchWritesRowData(c) == bound_columns_[c + 1].SQLBindCol.TargetValuePtr # "null"

\* C28: after auto_bind a blob column has clen_ 0 and no pdata_, and is
\* bound with its indicator array only, so that a fetch writes no row data
\* for it; every other column has a pdata_ of clen_ * rowset_size_ bytes,
\* bound with clen_ as its buffer length.
C28_BlobColumnsHaveNoRowBuffer ==
    \A c \in Ordinals :
        LET col == bound_columns_[c + 1]
        IN  IF col.blob_
            THEN /\ col.clen_ = 0
                 /\ ~col.pdata_.allocated
                 /\ col.SQLBindCol = [TargetValuePtr |-> "null", BufferLength |-> 0]
                 /\ ~FetchWritesRowData(c)
            ELSE /\ col.pdata_ = [allocated |-> TRUE, bytes |-> col.clen_ * rowset_size_]
                 /\ col.SQLBindCol = [TargetValuePtr |-> "pdata_",
                                      BufferLength |-> col.clen_]

\* a second result set (unlimited VARCHAR, BIGINT) bound under batch size
\* 2 and fetched
C28_Witness ==
    /\ result_index = 2 /\ rowset_size_ = 2 /\ row_count_ = 2
    /\ result_columns[1].sqltype = SQL_VARCHAR /\ result_columns[1].sqlsize = 0
    /\ bound_columns_[1].blob_ /\ ~bound_columns_[1].pdata_.allocated
    /\ ~bound_columns_[2].blob_ /\ bound_columns_[2].pdata_.bytes = 16

\* C24: after first(), last(), prior() or move(row) the in-batch offset is 0
\* and the call has issued one native fetch of its orientation.
C24_PositioningCallsAlwaysFetch ==
    /\ nav.op = "first" => rowset_position_ = 0 /\ nav.fetch = "SQL_FETCH_FIRST"
    /\ nav.op = "last" => rowset_position_ = 0 /\ nav.fetch = "SQL_FETCH_LAST"
    /\ nav.op = "prior" => rowset_position_ = 0 /\ nav.fetch = "SQL_FETCH_PRIOR"
    /\ nav.op = "move" => rowset_position_ = 0 /\ nav.fetch = "SQL_FETCH_ABSOLUTE"

\* C24 as it holds: first(), last() and move(row) always reset the offset
\* to 0 and issue one native fetch of their orientation; prior() does so
\* when the batch has no rows or the offset is not above 0, and otherwise
\* decrements the offset without a native fetch.
C24_PositioningFetchesButPriorInBatch ==
    [][/\ nav'.op = "first" =>
              rowset_position_' = 0 /\ nav'.fetch = "SQL_FETCH_FIRST"
       /\ nav'.op = "last" =>
              rowset_position_' = 0 /\ nav'.fetch = "SQL_FETCH_LAST"
       /\ nav'.op = "move" =>
              rowset_position_' = 0 /\ nav'.fetch = "SQL_FETCH_ABSOLUTE"
       /\ nav'.op = "prior" =>
              IF rows # 0 /\ rowset_position_ > 0
              THEN /\ rowset_position_' = rowset_position_ - 1
                   /\ nav'.fetch = "none"
                   /\ row_count_' = row_count_ /\ rowset_start' = rowset_start
              ELSE rowset_position_' = 0 /\ nav'.fetch = "SQL_FETCH_PRIOR"]_vars

\* prior() served from the batch in memory: from offset 1 to offset 0 of a
\* batch of two rows
C24_Witness ==
    /\ nav.op = "prior" /\ nav.fetch = "none" /\ nav.ret = "true"
    /\ rowset_position_ = 0 /\ row_count_ = 2 /\ nav.from = CurrentRow + 1

\* C25: a first(), last() or move(row) that returns true after the cursor
\* had reached the end (a fetch reported no more data, atEnd() was true)
\* leaves atEnd() false.
C25_PositioningLeavesAtEnd ==
    [][at_end_ /\ nav'.op \in {"first", "last", "move"} /\ nav'.ret = "true" =>
           ~atEnd']_vars

\* C29: the first next() after a nextResult() that returned true issues a
\* native fetch and, when the new result set has rows, returns true on its
\* first row.
C29_NextAfterNextResultFetches ==
    [][nav.op = "nextResult" /\ nav.ret = "true" /\ nav'.op = "next" =>
           /\ nav'.fetch = "SQL_FETCH_NEXT"
           /\ rowset_position_' = 0
           /\ (result_rows > 0 => nav'.ret = "true" /\ OnRow' /\ CurrentRow' = 0)]_vars

\* C30: while a connected connection has an outstanding Transaction
\* (constructed, not committed, not destroyed), autocommit is off on it.
C30_AutocommitOffWhileOutstanding ==
    connected_ /\ (\E t \in Transactions : alive[t] /\ committed_[t] = "false") =>
        autocommit = "off"

\* C21: asyncNext(eventHandle) returns true exactly when it issued a native
\* fetch that is still executing; it returns false when the row was served
\* from the batch in memory (no native fetch) and when the fetch completed
\* or reported no more data at once.
C21_AsyncNextTrueOnlyWhileExecuting ==
    async_call.op = "asyncNext" /\ async_call.ret = "true" =>
        async_call.rc = "SQL_STILL_EXECUTING" /\ pending # "none"

\* C26: a native fetch that fails raises DatabaseError from the call that
\* issued it or from its completion call, with and without an event handle,
\* and a fetch that reports no more data makes the call return false.
C26_FetchFailureIsRaised ==
    /\ async_call.op = "next" /\ async_call.rc = "SQL_ERROR" =>
            async_call.ret = "DatabaseError"
    /\ async_call.op = "completeNext" /\ async_call.rc = "SQL_ERROR" =>
            async_call.ret = "DatabaseError"
    /\ async_call.op = "completeNext" /\ async_call.in_progress
            /\ async_call.arc = "SQL_ERROR" =>
            async_call.ret = "DatabaseError"
    /\ async_call.rc = "SQL_NO_DATA" /\ async_call.op \in {"next", "asyncNext"} =>
            async_call.ret = "false"
    /\ async_call.op = "completeNext" /\ async_call.in_progress
            /\ async_call.arc = "SQL_NO_DATA" =>
            async_call.ret = "false"

\* C27: a completeNext() that finalizes a fetch in progress returns true
\* exactly when the fetch delivered a row, and after a completeNext() that
\* returned (true or false) no operation is recorded as pending.
C27_CompleteNextClearsPending ==
    async_call.op = "completeNext" /\ async_call.ret \in {"true", "false"} =>
        /\ ~async_
        /\ (async_call.in_progress =>
                (async_call.ret = "true" <=> async_call.arc = "SQL_SUCCESS"))

====
